---- MODULE Spec2Model ----
(***************************************************************************)
(* Model of lumen_lib's printer state detection:                           *)
(*   - state.py: PrinterState predicates and the monolithic StateDetector  *)
(*     (update, _detect_event, _transition, add_listener, force_event);    *)
(*   - states/bored.py, states/sleep.py: the pluggable BoredDetector and   *)
(*     SleepDetector predicates and their priority-ordered composition.    *)
(* Times are whole seconds, temperatures whole degrees.                    *)
(***************************************************************************)
EXTENDS Integers, Sequences, FiniteSets, TLC

(***************************************************************************)
(* Bounds of the model.                                                    *)
(***************************************************************************)
\* time.time() at construction of the StateDetector
StartTime == 1
\* last instant of the clock that is explored
MaxTime == 6
\* largest advance of the clock between two calls
MaxStep == 2
\* StateDetector(bored_timeout=...), in seconds
BoredTimeout == 1
\* StateDetector(sleep_timeout=...), in seconds
SleepTimeout == 2
\* largest number of registered listeners
MaxListeners == 2
\* update_from_status calls in one behaviour
MaxDeltas == 2
\* longest LED strip
MaxLeds == 3

(***************************************************************************)
(* Program constants.                                                      *)
(***************************************************************************)
\* Optional[float] = None
None == -1
\* is_hot: ambient threshold
AmbientThreshold == 40
\* at_temp(tolerance=2.0)
DefaultTolerance == 2
\* clearly_heating(threshold=10.0)
HysteresisThreshold == 10

\* PrinterEvent
IDLE == "idle"
HEATING == "heating"
PRINTING == "printing"
COOLDOWN == "cooldown"
ERROR == "error"
BORED == "bored"
SLEEP == "sleep"
PrinterEvent == {IDLE, HEATING, PRINTING, COOLDOWN, ERROR, BORED, SLEEP}

\* update's "no change" return value, and an exception leaving a call
NoChange == "None"
Raised == "Exception"

(***************************************************************************)
(* Telemetry snapshots fed to the detector.  The temperatures sit on both  *)
(* sides of every threshold the predicates compare against.                *)
(***************************************************************************)
KlipperStates == {"ready", "shutdown", "error"}
PrintStates == {"standby", "printing"}
ExtruderTargets == {0, 200}
ExtruderTemps == {40, 189, 190, 197, 198, 199, 203}
BedTargets == {0, 60}
BedTemps == {40, 50, 58}

\* every snapshot over the temperature grid
PrinterState ==
    [klipper_state : {"ready", "error"}, print_state : PrintStates,
     bed_temp : BedTemps, bed_target : BedTargets,
     extruder_temp : ExtruderTemps, extruder_target : ExtruderTargets]

\* the snapshots of a printer whose bed is off and cold
Telemetry ==
    [klipper_state : KlipperStates, print_state : PrintStates,
     bed_temp : {40}, bed_target : {0},
     extruder_temp : {40, 41, 189, 190, 199}, extruder_target : ExtruderTargets]

\* one snapshot for each branch of the decision tree
Snapshot(k, p, target, temp) ==
    [klipper_state |-> k, print_state |-> p, bed_temp |-> 40, bed_target |-> 0,
     extruder_temp |-> temp, extruder_target |-> target]

Samples ==
    {Snapshot("shutdown", "standby", 0, 40), Snapshot("error", "printing", 200, 199),
     Snapshot("ready", "printing", 200, 199), Snapshot("ready", "printing", 200, 189),
     Snapshot("ready", "standby", 200, 189), Snapshot("ready", "standby", 0, 189),
     Snapshot("ready", "standby", 0, 40)}

\* PrinterState() defaults, restricted to the fields the detector reads
DefaultState ==
    [klipper_state |-> "startup", print_state |-> "standby",
     bed_temp |-> 0, bed_target |-> 0,
     extruder_temp |-> 0, extruder_target |-> 0]

\* behaviours of a registered callback: it returns, or it raises an Exception
CallbackKinds == {"ok", "raises"}

VARIABLES
    state,           \* the PrinterState last handed to update
    now,             \* time.time() at the last call
    current_event,   \* StateDetector._current_event
    previous_event,  \* StateDetector._previous_event
    idle_start,      \* StateDetector._idle_start (None when not running)
    bored_start,     \* StateDetector._bored_start (None when not running)
    listeners,       \* StateDetector._listeners
    op,              \* the last call made on the detector
    ret,             \* what the last call returned
    notified,        \* the callback invocations of the last call, in order
    quiet,           \* every call so far was an update with inactive telemetry
    status,          \* the raw status last given to the pluggable detectors
    context,         \* the timing context last given to them
    evaluated,       \* the detectors have been applied to status and context
    bored_active,    \* what BoredDetector.detect returned
    sleep_active,    \* what SleepDetector.detect returned
    last_state,      \* the caller's selected state, fed back as last_state
    state_enter_time,\* when the caller entered it
    current_time,    \* the caller's clock
    printer_state,   \* the PrinterState object update_from_status mutates
    prior_state,     \* its fields before the last update_from_status call
    history,         \* the deltas applied so far, each with how its call ended
    effect_state,    \* the EffectState handed to the effect function
    effect_args,     \* the other arguments of that call
    effect_op,       \* the effect function applied ("init" before the call)
    effect_ret       \* what it returned

detvars == <<state, now, current_event, previous_event, idle_start, bored_start,
             listeners, op, ret, notified, quiet>>
plugvars == <<status, context, evaluated, bored_active, sleep_active,
              last_state, state_enter_time, current_time>>
mergevars == <<printer_state, prior_state, history>>
effectvars == <<effect_state, effect_args, effect_op, effect_ret>>
auxvars == <<mergevars, effectvars>>
vars == <<detvars, plugvars, auxvars>>

(***************************************************************************)
(* PrinterState predicates.                                                *)
(***************************************************************************)
Abs(x) == IF x < 0 THEN -x ELSE x

\* Python truth value of an Optional[float]
Truthy(x) == x # None /\ x # 0

\* telemetry of an inactive printer: no error, not printing, no heater target,
\* nothing hotter than the ambient threshold
Inactive(s) ==
    /\ s.klipper_state \notin {"shutdown", "error"}
    /\ s.print_state # "printing"
    /\ ~(s.bed_target > 0 \/ s.extruder_target > 0)
    /\ ~(s.bed_temp > AmbientThreshold \/ s.extruder_temp > AmbientThreshold)

\* mutant: a bed target alone does not count as heating
is_heatingExtruderOnly(s) == s.extruder_target > 0

is_heating(s) == s.bed_target > 0 \/ s.extruder_target > 0

is_hot(s) == s.bed_temp > AmbientThreshold \/ s.extruder_temp > AmbientThreshold

\* mutant: the bed is forgotten
at_tempExtruderOnly(s, tolerance) ==
    s.extruder_target = 0 \/ Abs(s.extruder_temp - s.extruder_target) <= tolerance

at_temp(s, tolerance) ==
    LET bed_ok == s.bed_target = 0 \/ Abs(s.bed_temp - s.bed_target) <= tolerance
        ext_ok == s.extruder_target = 0
                  \/ Abs(s.extruder_temp - s.extruder_target) <= tolerance
    IN  bed_ok /\ ext_ok

\* mutant: the threshold itself already counts as clearly heating
clearly_heatingInclusive(s, threshold) ==
    \/ s.bed_target > 0 /\ (s.bed_target - s.bed_temp) >= threshold
    \/ s.extruder_target > 0 /\ (s.extruder_target - s.extruder_temp) >= threshold

clearly_heating(s, threshold) ==
    IF s.bed_target > 0 /\ (s.bed_target - s.bed_temp) > threshold THEN TRUE
    ELSE IF s.extruder_target > 0 /\ (s.extruder_target - s.extruder_temp) > threshold
         THEN TRUE
    ELSE FALSE

(***************************************************************************)
(* StateDetector._detect_event: the event, and _bored_start as the call    *)
(* leaves it (the bored branch starts the timer).  cur, idle, bored are    *)
(* _current_event, _idle_start, _bored_start when it is called.            *)
(***************************************************************************)
\* mutant: bored only after more than bored_timeout seconds
IdleTimersStrict(t, idle, bored) ==
    IF Truthy(idle)
    THEN IF Truthy(bored) /\ (t - bored) >= SleepTimeout
         THEN [event |-> SLEEP, bored_start |-> bored]
         ELSE IF (t - idle) > BoredTimeout
              THEN [event |-> BORED,
                    bored_start |-> IF ~Truthy(bored) THEN t ELSE bored]
              ELSE [event |-> IDLE, bored_start |-> bored]
    ELSE [event |-> IDLE, bored_start |-> bored]

\* mutant: sleep is measured from the idle-timer, not from the bored-timer
IdleTimersSleepFromIdle(t, idle, bored) ==
    IF Truthy(idle)
    THEN IF (t - idle) >= SleepTimeout /\ (t - idle) >= BoredTimeout /\ Truthy(bored)
         THEN [event |-> SLEEP, bored_start |-> bored]
         ELSE IF (t - idle) >= BoredTimeout
              THEN [event |-> BORED,
                    bored_start |-> IF ~Truthy(bored) THEN t ELSE bored]
              ELSE [event |-> IDLE, bored_start |-> bored]
    ELSE [event |-> IDLE, bored_start |-> bored]

\* mutant: bored is reported only at the instant the idle time equals bored_timeout
IdleTimersBoredOnce(t, idle, bored) ==
    IF Truthy(idle)
    THEN IF Truthy(bored) /\ (t - bored) >= SleepTimeout
         THEN [event |-> SLEEP, bored_start |-> bored]
         ELSE IF (t - idle) = BoredTimeout
              THEN [event |-> BORED,
                    bored_start |-> IF ~Truthy(bored) THEN t ELSE bored]
              ELSE [event |-> IDLE, bored_start |-> bored]
    ELSE [event |-> IDLE, bored_start |-> bored]

IdleTimers(t, idle, bored) ==
    IF Truthy(idle)
    THEN IF Truthy(bored) /\ (t - bored) >= SleepTimeout
         THEN [event |-> SLEEP, bored_start |-> bored]
         ELSE IF (t - idle) >= BoredTimeout
              THEN [event |-> BORED,
                    bored_start |-> IF ~Truthy(bored) THEN t ELSE bored]
              ELSE [event |-> IDLE, bored_start |-> bored]
    ELSE [event |-> IDLE, bored_start |-> bored]

\* mutant: no hysteresis, a printing detector uses the entry test as well
PrintingBranchNoHysteresis(s, cur) ==
    IF is_heating(s) /\ ~at_temp(s, DefaultTolerance) THEN HEATING ELSE PRINTING

PrintingBranch(s, cur) ==
    IF cur = PRINTING
    THEN IF clearly_heating(s, HysteresisThreshold) THEN HEATING ELSE PRINTING
    ELSE IF is_heating(s) /\ ~at_temp(s, DefaultTolerance) THEN HEATING
         ELSE PRINTING

\* mutant: only the machine state "error" is an error
_detect_eventErrorOnly(s, t, cur, idle, bored) ==
    IF s.klipper_state = "error"
    THEN [event |-> ERROR, bored_start |-> bored]
    ELSE IF s.print_state = "printing"
    THEN [event |-> PrintingBranch(s, cur), bored_start |-> bored]
    ELSE IF is_heating(s)
    THEN [event |-> HEATING, bored_start |-> bored]
    ELSE IF is_hot(s) /\ ~is_heating(s)
    THEN [event |-> COOLDOWN, bored_start |-> bored]
    ELSE IdleTimers(t, idle, bored)

_detect_event(s, t, cur, idle, bored) ==
    IF s.klipper_state \in {"shutdown", "error"}
    THEN [event |-> ERROR, bored_start |-> bored]
    ELSE IF s.print_state = "printing"
    THEN [event |-> PrintingBranch(s, cur), bored_start |-> bored]
    ELSE IF is_heating(s)
    THEN [event |-> HEATING, bored_start |-> bored]
    ELSE IF is_hot(s) /\ ~is_heating(s)
    THEN [event |-> COOLDOWN, bored_start |-> bored]
    ELSE IdleTimers(t, idle, bored)

(***************************************************************************)
(* StateDetector._transition: the timers after the reset, and the          *)
(* notification loop.                                                      *)
(***************************************************************************)
\* mutant: an active event stops the idle-timer only
TransitionTimersKeepBored(new_event, t, idle, bored) ==
    IF new_event \in {HEATING, PRINTING, COOLDOWN, ERROR}
    THEN [idle_start |-> None, bored_start |-> bored]
    ELSE IF new_event = IDLE
    THEN [idle_start |-> t, bored_start |-> None]
    ELSE IF new_event = BORED
    THEN [idle_start |-> idle, bored_start |-> t]
    ELSE [idle_start |-> idle, bored_start |-> bored]

\* mutant: entering idle clears the bored-timer but does not restart the idle-timer
TransitionTimersIdleNotRestarted(new_event, t, idle, bored) ==
    IF new_event \in {HEATING, PRINTING, COOLDOWN, ERROR}
    THEN [idle_start |-> None, bored_start |-> None]
    ELSE IF new_event = IDLE
    THEN [idle_start |-> idle, bored_start |-> None]
    ELSE IF new_event = BORED
    THEN [idle_start |-> idle, bored_start |-> t]
    ELSE [idle_start |-> idle, bored_start |-> bored]

TransitionTimers(new_event, t, idle, bored) ==
    IF new_event \in {HEATING, PRINTING, COOLDOWN, ERROR}
    THEN [idle_start |-> None, bored_start |-> None]
    ELSE IF new_event = IDLE
    THEN [idle_start |-> t, bored_start |-> None]
    ELSE IF new_event = BORED
    THEN [idle_start |-> idle, bored_start |-> t]
    ELSE [idle_start |-> idle, bored_start |-> bored]

\* mutant: the callback is called outside any try/except
UnguardedCall(kind) == kind # "raises"

\* callback(new_event) inside try/except Exception: pass.  TRUE when the
\* loop goes on to the next callback, FALSE when the exception leaves it.
GuardedCall(kind) == kind \in {"ok", "raises"}

\* the for loop over _listeners from index i on: the invocations made, and
\* whether an exception left the loop
RECURSIVE NotifyFrom(_, _, _, _)
NotifyFrom(ls, i, new_event, calls) ==
    IF i > Len(ls)
    THEN [calls |-> calls, raised |-> FALSE]
    ELSE LET made == Append(calls, <<i, new_event>>)
         IN  IF GuardedCall(ls[i])
             THEN NotifyFrom(ls, i + 1, new_event, made)
             ELSE [calls |-> made, raised |-> TRUE]

NotifyListeners(ls, new_event) == NotifyFrom(ls, 1, new_event, <<>>)

(***************************************************************************)
(* Pluggable detectors (states/bored.py, states/sleep.py).  A raw status   *)
(* and a timing context are dicts: functions from keys to values.          *)
(***************************************************************************)
\* context.get('bored_timeout', 60.0)
DefaultBoredTimeout == 60
\* context.get('sleep_timeout', 300.0)
DefaultSleepTimeout == 300
\* BoredDetector.priority
BoredPriority == 80
\* SleepDetector.priority
SleepPriority == 90

\* {} (a context of None is as false as the empty dict)
EmptyDict == <<>>

\* dict.get(key, default)
Get(d, key, default) == IF key \in DOMAIN d THEN d[key] ELSE default

\* d restricted to the keys it is given with
Restrict(d, keys) == [k \in keys |-> d[k]]

\* str.lower() on the sub-state names
Lower(str) ==
    CASE str = "Printing" -> "printing"
      [] str = "Paused" -> "paused"
      [] str = "Error" -> "error"
      [] str = "Ready" -> "ready"
      [] str = "Idle" -> "idle"
      [] OTHER -> str

\* the guard both detectors open with: TRUE when the printer is truly idle
TrulyIdle(st) ==
    LET extruder == Get(st, "extruder", EmptyDict)
        heater_bed == Get(st, "heater_bed", EmptyDict)
        print_stats == Get(st, "print_stats", EmptyDict)
    IN  IF Get(extruder, "target", 0) > 0 \/ Get(heater_bed, "target", 0) > 0
        THEN FALSE
        ELSE IF Lower(Get(print_stats, "state", "")) \in {"printing", "paused"}
        THEN FALSE
        ELSE IF Lower(Get(Get(st, "idle_timeout", EmptyDict), "state", "")) = "error"
        THEN FALSE
        ELSE TRUE

\* mutant: bored only after more than bored_timeout seconds of idle
BoredTimingStrict(ctx) ==
    LET bored_timeout == Get(ctx, "bored_timeout", DefaultBoredTimeout)
        last == Get(ctx, "last_state", "")
        enter == Get(ctx, "state_enter_time", 0)
        cur == Get(ctx, "current_time", 0)
    IN  IF last = "bored" THEN TRUE
        ELSE IF last = "idle" THEN (cur - enter) > bored_timeout
        ELSE FALSE

\* the part of BoredDetector.detect after the guard
BoredTiming(ctx) ==
    LET bored_timeout == Get(ctx, "bored_timeout", DefaultBoredTimeout)
        last == Get(ctx, "last_state", "")
        enter == Get(ctx, "state_enter_time", 0)
        cur == Get(ctx, "current_time", 0)
    IN  IF last = "bored" THEN TRUE
        ELSE IF last = "idle" THEN (cur - enter) >= bored_timeout
        ELSE FALSE

\* mutant: sleep is measured from whatever state the printer rests in
SleepTimingAnyState(ctx) ==
    LET sleep_timeout == Get(ctx, "sleep_timeout", DefaultSleepTimeout)
        last == Get(ctx, "last_state", "")
        enter == Get(ctx, "state_enter_time", 0)
        cur == Get(ctx, "current_time", 0)
    IN  IF last = "sleep" THEN TRUE
        ELSE IF last \notin {"bored", "idle"} THEN FALSE
        ELSE IF (cur - enter) >= sleep_timeout THEN TRUE
        ELSE FALSE

\* the part of SleepDetector.detect after the guard
SleepTiming(ctx) ==
    LET sleep_timeout == Get(ctx, "sleep_timeout", DefaultSleepTimeout)
        last == Get(ctx, "last_state", "")
        enter == Get(ctx, "state_enter_time", 0)
        cur == Get(ctx, "current_time", 0)
    IN  IF last = "sleep" THEN TRUE
        ELSE IF last # "bored" THEN FALSE
        ELSE IF (cur - enter) >= sleep_timeout THEN TRUE
        ELSE FALSE

\* mutant: the sticky state is answered before the guard is looked at
BoredDetectStickyFirst(st, ctx) ==
    IF DOMAIN ctx = {} THEN FALSE
    ELSE IF Get(ctx, "last_state", "") = "bored" THEN TRUE
    ELSE IF ~TrulyIdle(st) THEN FALSE
    ELSE BoredTiming(ctx)

\* BoredDetector.detect(status, context)
BoredDetect(st, ctx) ==
    IF DOMAIN ctx = {} THEN FALSE
    ELSE IF ~TrulyIdle(st) THEN FALSE
    ELSE BoredTiming(ctx)

\* SleepDetector.detect(status, context)
SleepDetect(st, ctx) ==
    IF DOMAIN ctx = {} THEN FALSE
    ELSE IF ~TrulyIdle(st) THEN FALSE
    ELSE SleepTiming(ctx)

\* The caller's composition rule: the detectors in ascending priority order,
\* the first whose predicate is true; `other` is what the rest of the
\* registry answers when neither fires.
FirstActive(bored, sleep, other) ==
    IF BoredPriority <= SleepPriority
    THEN IF bored THEN "bored" ELSE IF sleep THEN "sleep" ELSE other
    ELSE IF sleep THEN "sleep" ELSE IF bored THEN "bored" ELSE other

\* the rest of the registry: idle for a truly idle printer, else an active state
OtherState(st) == IF TrulyIdle(st) THEN "idle" ELSE "active"

\* raw statuses: each group absent, or present with its sub-key
FullStatus(e, b, p, i) ==
    [extruder |-> [target |-> e], heater_bed |-> [target |-> b],
     print_stats |-> [state |-> p], idle_timeout |-> [state |-> i]]

StatusGroups == {"extruder", "heater_bed", "print_stats", "idle_timeout"}

RawStatuses ==
    {Restrict(FullStatus(e, b, p, i), g) :
        e \in {0, 200}, b \in {0, 60},
        p \in {"standby", "printing", "Printing", "paused", "complete"},
        i \in {"Ready", "Idle", "Printing", "error"},
        g \in SUBSET StatusGroups}

\* the statuses the composed caller is fed
StatusSamples ==
    {FullStatus(0, 0, "standby", "Ready"), FullStatus(0, 0, "complete", "Idle"),
     FullStatus(200, 0, "standby", "Ready"), FullStatus(0, 60, "printing", "Printing"),
     FullStatus(0, 0, "paused", "Ready"), Restrict(FullStatus(0, 0, "", ""), {})}

LastStates ==
    {"", "idle", "heating", "printing", "cooldown", "error", "bored", "sleep"}

FullContext(last, enter, cur) ==
    [last_state |-> last, state_enter_time |-> enter, current_time |-> cur,
     bored_timeout |-> BoredTimeout, sleep_timeout |-> SleepTimeout]

ContextKeys ==
    {"last_state", "state_enter_time", "current_time", "bored_timeout",
     "sleep_timeout"}

\* timing contexts: none, complete, or without the two thresholds
Contexts ==
    {EmptyDict} \cup
    {Restrict(FullContext(last, enter, cur), k) :
        last \in LastStates, enter \in {0, 1},
        cur \in {0, 1, 2, 3, 4, 60, 61, 300, 301},
        k \in {ContextKeys, ContextKeys \ {"bored_timeout", "sleep_timeout"}}}

\* mutant: update takes the transition on every call
ChangedAlways(new_event, cur) == TRUE

\* update's test new_event != self._current_event
Changed(new_event, cur) == new_event # cur

(***************************************************************************)
(* PrinterState.update_from_status.  A delta is a dict from group names to *)
(* group values; a group value is a mapping, None or a list; a position is *)
(* a list or None.  Numbers that may be null use None.                     *)
(***************************************************************************)
\* PrinterState() with every field at its dataclass default
PrinterStateDefaults ==
    [klipper_state |-> "startup", print_state |-> "standby", progress |-> 0,
     filename |-> "", bed_temp |-> 0, bed_target |-> 0,
     extruder_temp |-> 0, extruder_target |-> 0,
     position_x |-> 0, position_y |-> 0, position_z |-> 0,
     idle_state |-> "Ready"]

Fields == DOMAIN PrinterStateDefaults

\* group values of a delta
Mapping(items) == [kind |-> "dict", items |-> items]
NoneGroup == [kind |-> "None", items |-> EmptyDict]
ListGroup == [kind |-> "list", items |-> EmptyDict]

\* values of toolhead.position
Position(entries) == [kind |-> "list", entries |-> entries]
NonePosition == [kind |-> "None", entries |-> <<>>]

\* x or 0.0
OrZero(x) == IF Truthy(x) THEN x ELSE 0

\* mutant: the webhooks group replaces the snapshot instead of merging into it
update_webhooksReplace(ps, wh) ==
    IF "state" \in DOMAIN wh
    THEN [PrinterStateDefaults EXCEPT !.klipper_state = wh["state"]]
    ELSE PrinterStateDefaults

\* if "webhooks" in status: ...
update_webhooks(ps, wh) ==
    IF "state" \in DOMAIN wh THEN [ps EXCEPT !.klipper_state = wh["state"]]
    ELSE ps

\* if "print_stats" in status: ...
update_print_stats(ps, st) ==
    LET s1 == IF "state" \in DOMAIN st THEN [ps EXCEPT !.print_state = st["state"]]
              ELSE ps
    IN  IF "filename" \in DOMAIN st
        THEN [s1 EXCEPT !.filename = Get(st, "filename", "")]
        ELSE s1

\* if "display_status" in status: ...
update_display_status(ps, ds) ==
    IF "progress" \in DOMAIN ds
    THEN [ps EXCEPT !.progress = OrZero(Get(ds, "progress", 0))]
    ELSE ps

\* if "heater_bed" in status: ...
update_heater_bed(ps, hb) ==
    LET s1 == IF "temperature" \in DOMAIN hb
              THEN [ps EXCEPT !.bed_temp = OrZero(Get(hb, "temperature", 0))]
              ELSE ps
    IN  IF "target" \in DOMAIN hb
        THEN [s1 EXCEPT !.bed_target = OrZero(Get(hb, "target", 0))]
        ELSE s1

\* if "extruder" in status: ...
update_extruder(ps, ex) ==
    LET s1 == IF "temperature" \in DOMAIN ex
              THEN [ps EXCEPT !.extruder_temp = OrZero(Get(ex, "temperature", 0))]
              ELSE ps
    IN  IF "target" \in DOMAIN ex
        THEN [s1 EXCEPT !.extruder_target = OrZero(Get(ex, "target", 0))]
        ELSE s1

\* if "toolhead" in status: ... (for a position that is a list)
update_toolhead(ps, th) ==
    IF "position" \in DOMAIN th
    THEN LET pos == th["position"].entries
         IN  IF Len(pos) >= 3
             THEN [ps EXCEPT !.position_x = OrZero(pos[1]),
                             !.position_y = OrZero(pos[2]),
                             !.position_z = OrZero(pos[3])]
             ELSE ps
    ELSE ps

\* if "idle_timeout" in status: ...
update_idle_timeout(ps, it) ==
    IF "state" \in DOMAIN it THEN [ps EXCEPT !.idle_state = it["state"]]
    ELSE ps

\* the groups update_from_status looks for, in the order it processes them
GroupOrder ==
    <<"webhooks", "print_stats", "display_status", "heater_bed", "extruder",
      "toolhead", "idle_timeout">>

\* the block of one group, applied to a group value that is a mapping
UpdateGroup(g, ps, items) ==
    CASE g = "webhooks" -> update_webhooks(ps, items)
      [] g = "print_stats" -> update_print_stats(ps, items)
      [] g = "display_status" -> update_display_status(ps, items)
      [] g = "heater_bed" -> update_heater_bed(ps, items)
      [] g = "extruder" -> update_extruder(ps, items)
      [] g = "toolhead" -> update_toolhead(ps, items)
      [] g = "idle_timeout" -> update_idle_timeout(ps, items)

\* TypeError in the block of group g: `"key" in None` for a group that is
\* None, len(None) for a position that is None; both precede the block's
\* assignments.  A list answers every `in` test with False.
RaisesTypeError(g, group) ==
    \/ group.kind = "None"
    \/ /\ g = "toolhead"
       /\ group.kind = "dict"
       /\ "position" \in DOMAIN group.items
       /\ group.items["position"].kind = "None"

\* the blocks from the i-th on; an exception leaves the fields written so far
RECURSIVE UpdateFrom(_, _, _)
UpdateFrom(ps, st, i) ==
    IF i > Len(GroupOrder) THEN [state |-> ps, raised |-> FALSE]
    ELSE LET g == GroupOrder[i]
         IN  IF g \notin DOMAIN st THEN UpdateFrom(ps, st, i + 1)
             ELSE IF RaisesTypeError(g, st[g]) THEN [state |-> ps, raised |-> TRUE]
             ELSE IF st[g].kind = "dict"
             THEN UpdateFrom(UpdateGroup(g, ps, st[g].items), st, i + 1)
             ELSE UpdateFrom(ps, st, i + 1)

\* PrinterState.update_from_status(status) as a function of the fields
UpdateFromStatus(ps, st) == UpdateFrom(ps, st, 1)

\* a delta with the one group g
One(g, group) == [k \in {g} |-> group]

\* a delta with two groups
Two(g1, group1, g2, group2) ==
    [k \in {g1, g2} |-> IF k = g1 THEN group1 ELSE group2]

\* the telemetry deltas applied: well-formed groups, null numbers, empty
\* and unknown groups, and groups and positions that are not what they
\* should be
Deltas ==
    {EmptyDict,
     One("webhooks", Mapping([state |-> "ready"])),
     One("webhooks", Mapping([state |-> "error"])),
     One("webhooks", Mapping(EmptyDict)),
     One("webhooks", NoneGroup),
     One("webhooks", ListGroup),
     One("print_stats", Mapping([state |-> "printing"])),
     One("print_stats", Mapping([filename |-> "a.gcode"])),
     One("print_stats", Mapping([state |-> "complete", filename |-> "b.gcode"])),
     One("display_status", Mapping([progress |-> 1])),
     One("display_status", Mapping([progress |-> None])),
     One("heater_bed", Mapping([temperature |-> 50])),
     One("heater_bed", Mapping([target |-> 60])),
     One("heater_bed", Mapping([temperature |-> 58, target |-> None])),
     One("heater_bed", NoneGroup),
     One("extruder", Mapping([temperature |-> 199])),
     One("extruder", Mapping([target |-> 200])),
     One("extruder", Mapping([temperature |-> None, target |-> 0])),
     One("toolhead", Mapping([position |-> Position(<<1, 2, 3>>)])),
     One("toolhead", Mapping([position |-> Position(<<4, None, 0, 9>>)])),
     One("toolhead", Mapping([position |-> Position(<<5, 6>>)])),
     One("toolhead", Mapping([position |-> NonePosition])),
     One("toolhead", Mapping([homed_axes |-> "xyz"])),
     One("idle_timeout", Mapping([state |-> "Printing"])),
     One("idle_timeout", Mapping([state |-> "Idle"])),
     One("fan", Mapping([speed |-> 1])),
     One("fan", NoneGroup),
     Two("webhooks", Mapping([state |-> "ready"]), "toolhead", NoneGroup),
     Two("webhooks", NoneGroup, "extruder", Mapping([target |-> 200])),
     Two("print_stats", Mapping([state |-> "standby"]),
         "toolhead", Mapping([position |-> NonePosition])),
     Two("heater_bed", Mapping([temperature |-> 40]),
         "extruder", Mapping([temperature |-> 41, target |-> 200]))}

(***************************************************************************)
(* Effect functions (effects.py).  A float is the integer number of        *)
(* 2^-FracBits units it holds; every arithmetic operation is the exact     *)
(* result rounded to the nearest float of MantissaBits significant bits,   *)
(* ties to even, as binary floating point does at its own precision.       *)
(***************************************************************************)
FracBits == 8
MantissaBits == 6

\* 1.0
Unit == 2^FracBits

\* the exponent of the float nearest to p/q units (p >= 0, q > 0)
RECURSIVE Exponent(_, _, _)
Exponent(p, q, e) ==
    IF p < q * 2^(e + MantissaBits) THEN e ELSE Exponent(p, q, e + 1)

\* a/d rounded to the nearest integer, ties to even (a >= 0, d > 0)
NearestEven(a, d) ==
    IF 2 * (a % d) > d \/ (2 * (a % d) = d /\ (a \div d) % 2 = 1)
    THEN (a \div d) + 1
    ELSE a \div d

\* the float nearest to a/q units (a >= 0, q > 0)
Nearest(a, q) ==
    CHOOSE v \in {NearestEven(a, q * s) * s : s \in {2^Exponent(a, q, 0)}} : TRUE

\* p/q units rounded to the nearest float (q > 0)
Round(p, q) ==
    CHOOSE v \in {IF x < 0 THEN -Nearest(-x, y) ELSE Nearest(x, y) :
                     x \in {p}, y \in {q}} : TRUE

\* float + - * / and the float of an int or of a decimal literal n/d
FAdd(a, b) == Round(a + b, 1)
FSub(a, b) == Round(a - b, 1)
FMul(a, b) == Round(a * b, Unit)
FDiv(a, b) == IF b < 0 THEN Round(-(a * Unit), -b) ELSE Round(a * Unit, b)
FromInt(n) == n * Unit
Decimal(n, d) == Round(n * Unit, d)

\* a % b on floats, b > 0 (exact, with the sign of b)
FMod(a, b) == a % b

Min(a, b) == IF a <= b THEN a ELSE b
Max(a, b) == IF a >= b THEN a ELSE b

\* Heartbeat effect timing constants
HEARTBEAT_FIRST_PULSE_DURATION == Decimal(15, 100)
HEARTBEAT_DIP_DURATION == Decimal(5, 100)
HEARTBEAT_SECOND_PULSE_DURATION == Decimal(5, 100)
HEARTBEAT_FADE_DURATION == Decimal(10, 100)
HEARTBEAT_SECOND_PULSE_INTENSITY == Decimal(5, 10)

\* an unlit LED: None in a colour buffer
Unlit == <<>>

White == <<Unit, Unit, Unit>>
Black == <<0, 0, 0>>

\* EffectState() with the fields the effect functions read at their defaults
EffectStateDefaults ==
    [base_color |-> Black, start_time |-> 0, last_update |-> 0,
     speed |-> Unit, min_brightness |-> Decimal(2, 10), max_brightness |-> Unit,
     min_sparkle |-> 1, max_sparkle |-> 6,
     start_color |-> <<Unit \div 2, Unit \div 2, Unit \div 2>>,
     end_color |-> <<0, Unit, 0>>,
     gradient_curve |-> Unit, direction |-> "standard"]

\* the brightness of the second rise, t of the way through it
SecondPulse(es, t) ==
    FAdd(FAdd(es.min_brightness, HEARTBEAT_SECOND_PULSE_INTENSITY),
         FMul(FMul(t, FSub(es.max_brightness, es.min_brightness)),
              HEARTBEAT_SECOND_PULSE_INTENSITY))

\* the position in the cycle effect_heartbeat computes
HeartbeatPhase(es, at) ==
    LET elapsed == FSub(at, es.start_time)
        cycle_time == FDiv(Unit, es.speed)
    IN  FDiv(FMod(elapsed, cycle_time), cycle_time)

\* the brightness effect_heartbeat scales base_color by
HeartbeatBrightness(es, at) ==
    LET phase == HeartbeatPhase(es, at)
        span == FSub(es.max_brightness, es.min_brightness)
        dip == HEARTBEAT_FIRST_PULSE_DURATION
        second == FAdd(dip, HEARTBEAT_DIP_DURATION)
        fade == FAdd(second, HEARTBEAT_SECOND_PULSE_DURATION)
        rest == FAdd(fade, HEARTBEAT_FADE_DURATION)
    IN  IF phase < dip
        THEN FAdd(es.min_brightness,
                  FMul(FDiv(phase, HEARTBEAT_FIRST_PULSE_DURATION), span))
        ELSE IF phase < second
        THEN FSub(es.max_brightness,
                  FMul(FMul(FDiv(FSub(phase, dip), HEARTBEAT_DIP_DURATION), span),
                       HEARTBEAT_SECOND_PULSE_INTENSITY))
        ELSE IF phase < fade
        THEN SecondPulse(es,
                 FDiv(FSub(FSub(phase, HEARTBEAT_FIRST_PULSE_DURATION),
                           HEARTBEAT_DIP_DURATION),
                      HEARTBEAT_SECOND_PULSE_DURATION))
        ELSE IF phase < rest
        THEN FSub(es.max_brightness,
                  FMul(FDiv(FSub(FSub(FSub(phase, HEARTBEAT_FIRST_PULSE_DURATION),
                                      HEARTBEAT_DIP_DURATION),
                                 HEARTBEAT_SECOND_PULSE_DURATION),
                            HEARTBEAT_FADE_DURATION), span))
        ELSE es.min_brightness

\* effect_heartbeat(es, at)
effect_heartbeat(es, at) ==
    LET brightness == HeartbeatBrightness(es, at)
    IN  <<FMul(es.base_color[1], brightness),
          FMul(es.base_color[2], brightness),
          FMul(es.base_color[3], brightness)>>

\* _lerp_color(color1, color2, t)
_lerp_color(color1, color2, t) ==
    <<FAdd(color1[1], FMul(FSub(color2[1], color1[1]), t)),
      FAdd(color1[2], FMul(FSub(color2[2], color1[2]), t)),
      FAdd(color1[3], FMul(FSub(color2[3], color1[3]), t))>>

\* pow(gradient_t, gradient_curve) for the exponents 1.0 and 2.0
Pow(x, curve) == IF curve = Unit THEN x ELSE FMul(x, x)

\* mutant: the buffer is returned as built whatever the direction
ReversedNot(colors) == colors

\* list(reversed(colors))
Reversed(colors) == [i \in 1..Len(colors) |-> colors[Len(colors) + 1 - i]]

\* the body of effect_fill's loop for the LED at 0-indexed position i
FillLed(es, lit_count, led_count, i) ==
    LET led_pos == i + 1
        gradient_t == IF led_count <= 1 THEN Unit
                      ELSE FDiv(FromInt(i), FromInt(led_count - 1))
        curved_t == Pow(gradient_t, es.gradient_curve)
        color == _lerp_color(es.start_color, es.end_color, curved_t)
    IN  IF FromInt(led_pos) <= lit_count THEN color
        ELSE IF FromInt(led_pos - 1) < lit_count
        THEN LET partial == FSub(lit_count, FromInt(led_pos - 1))
             IN  <<FMul(color[1], partial), FMul(color[2], partial),
                   FMul(color[3], partial)>>
        ELSE Unlit

\* effect_fill(es, fill_percent, led_count)
effect_fill(es, fill_percent, led_count) ==
    LET clamped == Max(0, Min(Unit, fill_percent))
        lit_count == FMul(clamped, FromInt(led_count))
        colors == [p \in 1..led_count |-> FillLed(es, lit_count, led_count, p - 1)]
    IN  IF es.direction = "reverse" THEN Reversed(colors) ELSE colors

\* mutant: the fill is measured from zero degrees, not from temp_floor
effect_thermalNoFloor(es, current_temp, target_temp, temp_floor, led_count) ==
    IF target_temp <= 0 THEN [p \in 1..led_count |-> es.start_color]
    ELSE IF target_temp <= temp_floor THEN [p \in 1..led_count |-> es.start_color]
    ELSE effect_fill(es, FDiv(current_temp, target_temp), led_count)

\* effect_thermal(es, current_temp, target_temp, temp_floor, led_count)
effect_thermal(es, current_temp, target_temp, temp_floor, led_count) ==
    IF target_temp <= 0 THEN [p \in 1..led_count |-> es.start_color]
    ELSE IF target_temp <= temp_floor THEN [p \in 1..led_count |-> es.start_color]
    ELSE LET temp_range == FSub(target_temp, temp_floor)
             temp_above_floor == FSub(current_temp, temp_floor)
             fill_percent == FDiv(temp_above_floor, temp_range)
         IN  effect_fill(es, fill_percent, led_count)

\* effect_progress(es, progress, led_count)
effect_progress(es, progress, led_count) == effect_fill(es, progress, led_count)

\* mutant: the gate also holds back a call made exactly one interval later
DiscoGatedInclusive(es, at) ==
    FSub(at, es.last_update) <= FDiv(Unit, es.speed)

\* effect_disco's gate: time_since_update < interval
DiscoGated(es, at) ==
    LET time_since_update == FSub(at, es.last_update)
        interval == FDiv(Unit, es.speed)
    IN  time_since_update < interval

\* the colour effect_disco gives a lit LED whose random hue is `hue`
HueColor(es, hue) ==
    LET h == FMul(hue, FromInt(6))
        c == es.max_brightness
        d == FSub(FMod(h, FromInt(2)), Unit)
        x == FMul(c, FSub(Unit, IF d < 0 THEN -d ELSE d))
    IN  IF h < FromInt(1) THEN <<c, x, 0>>
        ELSE IF h < FromInt(2) THEN <<x, c, 0>>
        ELSE IF h < FromInt(3) THEN <<0, c, x>>
        ELSE IF h < FromInt(4) THEN <<0, x, c>>
        ELSE IF h < FromInt(5) THEN <<x, 0, c>>
        ELSE <<c, 0, x>>

\* the values random.random() takes in the model
Hues == {0, Unit \div 2}

\* the buffers a firing effect_disco can build: random.randint draws num_lit,
\* random.shuffle the indices lit, random.random the hue of each
DiscoBuffers(es, led_count) ==
    LET min_lit == Min(es.min_sparkle, led_count)
        max_lit == Min(es.max_sparkle, led_count)
    IN  {[p \in 1..led_count |-> IF p \in lit THEN HueColor(es, hue[p]) ELSE Unlit] :
            lit \in {s \in SUBSET (1..led_count) :
                        Cardinality(s) \in min_lit..max_lit},
            hue \in [1..led_count -> Hues]}

\* what effect_disco(es, at, led_count) can return
effect_disco(es, at, led_count) ==
    IF DiscoGated(es, at) THEN {[colors |-> <<>>, updated |-> FALSE]}
    ELSE {[colors |-> buffer, updated |-> TRUE] :
             buffer \in DiscoBuffers(es, led_count)}

\* EffectStates for the fill effects
EdgeColor == <<1, 0, Unit>>
FillStates ==
    {[EffectStateDefaults EXCEPT !.start_color = s, !.end_color = e,
                                 !.gradient_curve = c, !.direction = d] :
        s \in {EffectStateDefaults.start_color, EdgeColor, Black},
        e \in {EffectStateDefaults.end_color, <<66, Unit, 0>>, White},
        c \in {Unit, 2 * Unit},
        d \in {"standard", "reverse"}}

\* EffectStates for heartbeat
HeartbeatStates ==
    {[EffectStateDefaults EXCEPT !.base_color = White, !.speed = s,
                                 !.min_brightness = b[1], !.max_brightness = b[2],
                                 !.start_time = t] :
        s \in {Unit, 2 * Unit},
        b \in {<<Decimal(2, 10), Unit>>, <<0, Unit>>, <<Unit \div 2, Unit>>,
               <<Unit \div 2, Unit \div 2>>},
        t \in {0, Unit \div 4}}

\* EffectStates for disco
DiscoStates ==
    {[EffectStateDefaults EXCEPT !.speed = s, !.last_update = u,
                                 !.min_sparkle = k[1], !.max_sparkle = k[2]] :
        s \in {Unit, 2 * Unit},
        u \in {0, Unit \div 2},
        k \in {<<1, 6>>, <<0, 2>>, <<2, 2>>}}

EffectStates == FillStates \cup HeartbeatStates \cup DiscoStates

\* arguments of the calls
LedCounts == 0..MaxLeds
FillPercents ==
    {-(Unit \div 4), 0, Unit \div 4, Unit \div 3, Unit \div 2, 3 * (Unit \div 4),
     Unit, Unit + Unit \div 4}
Temps == {FromInt(t) : t \in {0, 20, 40, 60, 240}}
TargetTemps == {FromInt(t) : t \in {-20, 0, 20, 60, 240}}
TempFloors == {FromInt(t) : t \in {0, 20, 60}}
Times ==
    {0, 20, 38, 44, 51, 56, 62, 64, 76, 90, Unit \div 2, 3 * (Unit \div 4), Unit,
     Unit + Unit \div 4, Unit + Unit \div 2, 2 * Unit}

(***************************************************************************)
(* Operations.                                                             *)
(***************************************************************************)
DetectorInit ==
    /\ state = DefaultState
    /\ now = StartTime
    /\ current_event = IDLE
    /\ previous_event = IDLE
    /\ idle_start = StartTime
    /\ bored_start = None
    /\ listeners = <<>>
    /\ op = "init"
    /\ ret = NoChange
    /\ notified = <<>>
    /\ quiet = TRUE

\* the pluggable detectors' caller, before its first evaluation
PlugInit ==
    /\ status = FullStatus(0, 0, "standby", "Ready")
    /\ context = EmptyDict
    /\ evaluated = FALSE
    /\ bored_active = FALSE
    /\ sleep_active = FALSE
    /\ last_state = "idle"
    /\ state_enter_time = StartTime
    /\ current_time = StartTime

\* a fresh PrinterState, no delta applied yet
MergeInit ==
    /\ printer_state = PrinterStateDefaults
    /\ prior_state = PrinterStateDefaults
    /\ history = <<>>

\* no effect function called yet
EffectInit ==
    /\ effect_state = EffectStateDefaults
    /\ effect_args = EmptyDict
    /\ effect_op = "init"
    /\ effect_ret = EmptyDict

Init == DetectorInit /\ PlugInit /\ MergeInit /\ EffectInit

\* a raw status and a timing context for one call of each predicate
InitDetect ==
    /\ DetectorInit
    /\ status \in RawStatuses
    /\ context \in Contexts
    /\ evaluated = FALSE
    /\ bored_active = FALSE
    /\ sleep_active = FALSE
    /\ last_state = "idle"
    /\ state_enter_time = StartTime
    /\ current_time = StartTime
    /\ MergeInit
    /\ EffectInit

\* StateDetector.add_listener(callback)
add_listener(kind) ==
    /\ Len(listeners) < MaxListeners
    /\ listeners' = Append(listeners, kind)
    /\ op' = "add_listener"
    /\ ret' = NoChange
    /\ notified' = <<>>
    /\ UNCHANGED <<state, now, current_event, previous_event, idle_start,
                   bored_start, quiet>>
    /\ UNCHANGED <<plugvars, auxvars>>

\* StateDetector.update(state), called dt seconds after the previous call
update(s, dt) ==
    /\ now + dt <= MaxTime
    /\ LET t == now + dt
           d == _detect_event(s, t, current_event, idle_start, bored_start)
       IN  /\ now' = t
           /\ state' = s
           /\ op' = "update"
           /\ quiet' = (quiet /\ Inactive(s))
           /\ IF Changed(d.event, current_event)
              THEN LET tm == TransitionTimers(d.event, t, idle_start, d.bored_start)
                       n == NotifyListeners(listeners, d.event)
                   IN  /\ previous_event' = current_event
                       /\ current_event' = d.event
                       /\ idle_start' = tm.idle_start
                       /\ bored_start' = tm.bored_start
                       /\ notified' = n.calls
                       /\ ret' = IF n.raised THEN Raised ELSE d.event
              ELSE /\ bored_start' = d.bored_start
                   /\ notified' = <<>>
                   /\ ret' = NoChange
                   /\ UNCHANGED <<current_event, previous_event, idle_start>>
    /\ UNCHANGED listeners
    /\ UNCHANGED <<plugvars, auxvars>>

\* StateDetector.force_event(event), called dt seconds after the previous call
force_event(event, dt) ==
    /\ now + dt <= MaxTime
    /\ LET t == now + dt
           tm == TransitionTimers(event, t, idle_start, bored_start)
           n == NotifyListeners(listeners, event)
       IN  /\ now' = t
           /\ op' = "force_event"
           /\ previous_event' = current_event
           /\ current_event' = event
           /\ idle_start' = tm.idle_start
           /\ bored_start' = tm.bored_start
           /\ notified' = n.calls
           /\ ret' = IF n.raised THEN Raised ELSE NoChange
           /\ quiet' = FALSE
    /\ UNCHANGED <<state, listeners>>
    /\ UNCHANGED <<plugvars, auxvars>>

\* BoredDetector.detect and SleepDetector.detect on the given status and context
detect ==
    /\ ~evaluated
    /\ evaluated' = TRUE
    /\ bored_active' = BoredDetect(status, context)
    /\ sleep_active' = SleepDetect(status, context)
    /\ UNCHANGED <<status, context, last_state, state_enter_time, current_time>>
    /\ UNCHANGED <<detvars, auxvars>>

\* One evaluation by the caller, dt seconds after the previous one: it builds
\* the context, applies the detectors, selects the state and feeds it back.
evaluate(st, dt) ==
    /\ current_time + dt <= MaxTime
    /\ LET t == current_time + dt
           ctx == FullContext(last_state, state_enter_time, t)
           bored == BoredDetect(st, ctx)
           sleep == SleepDetect(st, ctx)
           selected == FirstActive(bored, sleep, OtherState(st))
       IN  /\ current_time' = t
           /\ status' = st
           /\ context' = ctx
           /\ evaluated' = TRUE
           /\ bored_active' = bored
           /\ sleep_active' = sleep
           /\ last_state' = selected
           /\ state_enter_time' = IF selected # last_state THEN t
                                  ELSE state_enter_time
    /\ UNCHANGED <<detvars, auxvars>>

\* printer_state.update_from_status(status)
update_from_status(st) ==
    /\ Len(history) < MaxDeltas
    /\ LET r == UpdateFromStatus(printer_state, st)
       IN  /\ printer_state' = r.state
           /\ prior_state' = printer_state
           /\ history' = Append(history, [status |-> st, raised |-> r.raised])
    /\ UNCHANGED <<detvars, plugvars, effectvars>>

MergeStep == \E st \in Deltas : update_from_status(st)

\* no effect function has been called on the EffectState yet
Fresh == effect_op = "init"

\* one call of an effect function on the EffectState; none of them assigns
\* to a field of the state
CallEffect(name, args, returned) ==
    /\ effect_op' = name
    /\ effect_args' = args
    /\ effect_ret' = returned
    /\ UNCHANGED <<effect_state, detvars, plugvars, mergevars>>

HeartbeatStep ==
    /\ Fresh
    /\ \E at \in Times :
           CallEffect("effect_heartbeat", [now |-> at],
                      [color |-> effect_heartbeat(effect_state, at)])

FillStep ==
    /\ Fresh
    /\ \E fill_percent \in FillPercents, led_count \in LedCounts :
           CallEffect("effect_fill",
                      [fill_percent |-> fill_percent, led_count |-> led_count],
                      [colors |-> effect_fill(effect_state, fill_percent, led_count)])

ProgressStep ==
    /\ Fresh
    /\ \E progress \in FillPercents, led_count \in LedCounts :
           CallEffect("effect_progress",
                      [progress |-> progress, led_count |-> led_count],
                      [colors |-> effect_progress(effect_state, progress, led_count)])

ThermalStep ==
    /\ Fresh
    /\ \E current_temp \in Temps, target_temp \in TargetTemps,
          temp_floor \in TempFloors, led_count \in LedCounts :
           CallEffect("effect_thermal",
                      [current_temp |-> current_temp, target_temp |-> target_temp,
                       temp_floor |-> temp_floor, led_count |-> led_count],
                      [colors |-> effect_thermal(effect_state, current_temp,
                                                 target_temp, temp_floor, led_count)])

DiscoStep ==
    /\ Fresh
    /\ \E at \in Times, led_count \in LedCounts :
           \E returned \in effect_disco(effect_state, at, led_count) :
               CallEffect("effect_disco", [now |-> at, led_count |-> led_count],
                          returned)

NextEffect == HeartbeatStep \/ FillStep \/ ProgressStep \/ ThermalStep \/ DiscoStep

\* an EffectState for one call of an effect function
InitEffect ==
    /\ DetectorInit
    /\ PlugInit
    /\ MergeInit
    /\ effect_state \in EffectStates
    /\ effect_args = EmptyDict
    /\ effect_op = "init"
    /\ effect_ret = EmptyDict

AddListenerStep == \E kind \in CallbackKinds : add_listener(kind)
UpdateStep == \E s \in Telemetry, dt \in 0..MaxStep : update(s, dt)
SampleStep == \E s \in Samples, dt \in 0..MaxStep : update(s, dt)
ForceStep == \E e \in PrinterEvent, dt \in 0..MaxStep : force_event(e, dt)
GridStep == \E s \in PrinterState, dt \in {0, MaxStep} : update(s, dt)

EvaluateStep == \E st \in StatusSamples, dt \in 0..MaxStep : evaluate(st, dt)

NextUpdate == UpdateStep
NextGrid == GridStep
Next == AddListenerStep \/ SampleStep \/ ForceStep

\* every operation of the detector
Spec == Init /\ [][Next]_vars
\* update only
SpecUpdate == Init /\ [][NextUpdate]_vars
\* update only, over the whole temperature grid
SpecGrid == Init /\ [][NextGrid]_vars
\* the two pluggable predicates, each applied to a status and a context
SpecDetect == InitDetect /\ [][detect]_vars
\* the pluggable predicates composed by their caller
SpecPlug == Init /\ [][EvaluateStep]_vars
\* update_from_status alone, from a fresh PrinterState
SpecMerge == Init /\ [][MergeStep]_vars
\* one call of an effect function on each EffectState
SpecEffect == InitEffect /\ [][NextEffect]_vars

(***************************************************************************)
(* Properties of the monolithic StateDetector.                             *)
(***************************************************************************)
MachineFault(s) == s.klipper_state \in {"shutdown", "error"}

\* C1: after an update whose snapshot has machine state shutdown or error
\* the current event is error, whatever the rest of the snapshot, the prior
\* event and the timers were.
C1_ErrorPriority ==
    (op = "update" /\ MachineFault(state)) => current_event = ERROR

C1_Witness ==
    /\ op = "update"
    /\ state.klipper_state = "shutdown"
    /\ state.print_state = "printing"
    /\ state.extruder_target > 0
    /\ previous_event = SLEEP
    /\ current_event = ERROR

\* C2: update returns the detected event exactly when it differs from the
\* event current before the call, and then current_event is the returned
\* value and previous_event the old one; otherwise it returns None, keeps
\* current_event and previous_event and invokes no listener.
C2_ReturnOnlyOnChange ==
    [][op' = "update" =>
        LET detected == _detect_event(state', now', current_event, idle_start,
                                      bored_start).event
        IN  /\ (detected # current_event) <=> (ret' = detected)
            /\ (detected = current_event) <=> (ret' = NoChange)
            /\ ret' # NoChange =>
                  /\ current_event' = ret'
                  /\ previous_event' = current_event
            /\ ret' = NoChange =>
                  /\ current_event' = current_event
                  /\ previous_event' = previous_event
                  /\ notified' = <<>>]_vars

C2_Witness ==
    /\ op = "update"
    /\ ret = NoChange
    /\ Len(listeners) = MaxListeners
    /\ notified = <<>>
    /\ current_event = BORED
    /\ previous_event = IDLE

\* C3: from a fresh detector fed only inactive telemetry, update reports
\* bored on the first call made at least bored_timeout seconds after the idle
\* start and on no other call; every other call returns None or, later, sleep.
C3_BoredExactlyOnce ==
    [][(op' = "update" /\ quiet') =>
        /\ ret' \in {NoChange, BORED, SLEEP}
        /\ ret' = BORED <=>
              /\ now' - StartTime >= BoredTimeout
              /\ now - StartTime < BoredTimeout
        /\ ret' = SLEEP => current_event = BORED]_vars

C3_Witness ==
    /\ quiet
    /\ op = "update"
    /\ ret = BORED
    /\ now - StartTime > BoredTimeout

\* C4: under update calls only, an update with inactive telemetry reports
\* sleep exactly when the bored-timer is running, has run for at least
\* sleep_timeout seconds and sleep is not yet current; sleep is then entered
\* from bored, at least bored_timeout + sleep_timeout seconds after the
\* idle-timer started.
C4_SleepAfterBored ==
    [][(op' = "update" /\ Inactive(state')) =>
        /\ ret' = SLEEP <=>
              /\ current_event # SLEEP
              /\ bored_start # None
              /\ now' - bored_start >= SleepTimeout
        /\ ret' = SLEEP =>
              /\ current_event = BORED
              /\ idle_start # None
              /\ now' - idle_start >= BoredTimeout + SleepTimeout]_vars

C4_Witness ==
    /\ op = "update"
    /\ ret = SLEEP
    /\ previous_event = BORED
    /\ current_event = SLEEP
    /\ Inactive(state)
    /\ ~quiet

\* what decision step 2 promises of a printing detector
C5_Step2(s, cur, res) ==
    IF (s.bed_target > 0 /\ s.bed_target - s.bed_temp > HysteresisThreshold)
       \/ (s.extruder_target > 0
           /\ s.extruder_target - s.extruder_temp > HysteresisThreshold)
    THEN cur = HEATING /\ res = HEATING
    ELSE cur = PRINTING /\ res = NoChange

\* C5 as stated: a printing detector whose machine state is not
\* shutdown/error stays printing on every snapshot unless clearly_heating(10)
\* holds, and then becomes heating.
C5_AsStated ==
    [][(op' = "update" /\ current_event = PRINTING /\ ~MachineFault(state')) =>
        C5_Step2(state', current_event', ret')]_vars

\* C5, amended: the same, for the snapshots whose print_state is 'printing'.
C5_PrintingHysteresis ==
    [][(op' = "update" /\ current_event = PRINTING /\ ~MachineFault(state')
        /\ state'.print_state = "printing") =>
        C5_Step2(state', current_event', ret')]_vars

C5_Witness ==
    /\ op = "update"
    /\ previous_event = PRINTING
    /\ ret = HEATING
    /\ state.print_state = "printing"
    /\ ~MachineFault(state)
    /\ state.bed_target - state.bed_temp > HysteresisThreshold
    /\ state.extruder_target - state.extruder_temp <= DefaultTolerance

\* some heater has a nonzero target and is more than 2 degrees away from it
C6_UnmetTarget(s) ==
    \/ s.bed_target # 0 /\ Abs(s.bed_temp - s.bed_target) > DefaultTolerance
    \/ s.extruder_target # 0
       /\ Abs(s.extruder_temp - s.extruder_target) > DefaultTolerance

C6_Example(temp) ==
    [klipper_state |-> "ready", print_state |-> "printing", bed_temp |-> 40,
     bed_target |-> 0, extruder_temp |-> temp, extruder_target |-> 200]

\* C6: a detector that is not printing, with machine state not
\* shutdown/error and print_state 'printing', detects heating if some heater
\* has an unmet target and printing otherwise; extruder 190 of 200 on the
\* first observation gives heating, and 199 of 200 next gives printing.
C6_EnterPrinting ==
    [][op' = "update" =>
        /\ (current_event # PRINTING /\ ~MachineFault(state')
            /\ state'.print_state = "printing") =>
              current_event' = IF C6_UnmetTarget(state') THEN HEATING ELSE PRINTING
        /\ (op = "init" /\ state' = C6_Example(190)) => ret' = HEATING
        /\ (state = C6_Example(190) /\ op = "update" /\ ret = HEATING
            /\ state' = C6_Example(199)) => ret' = PRINTING]_vars

C6_Witness ==
    /\ op = "update"
    /\ state = C6_Example(199)
    /\ previous_event = HEATING
    /\ current_event = PRINTING
    /\ ret = PRINTING

\* each heater that has a nonzero target is more than 2 and at most 10
\* degrees below it
C7_InBand(s) ==
    /\ s.bed_target # 0 =>
          /\ s.bed_target - s.bed_temp > DefaultTolerance
          /\ s.bed_target - s.bed_temp <= HysteresisThreshold
    /\ s.extruder_target # 0 =>
          /\ s.extruder_target - s.extruder_temp > DefaultTolerance
          /\ s.extruder_target - s.extruder_temp <= HysteresisThreshold

\* an update of a printing or heating detector that makes no transition
C7_NoTransition ==
    /\ current_event' = current_event
    /\ previous_event' = previous_event
    /\ ret' = NoChange

\* C7 as stated: with print_state 'printing' and machine state not
\* shutdown/error, an update in which every heater with a nonzero target is
\* more than 2 and at most 10 degrees below it makes no transition: printing
\* stays printing, heating stays heating.
C7_AsStated ==
    [][(op' = "update" /\ ~MachineFault(state') /\ state'.print_state = "printing"
        /\ C7_InBand(state') /\ current_event \in {PRINTING, HEATING}) =>
        C7_NoTransition]_vars

\* C7, amended: the same, when at least one heater has a nonzero target.
C7_Hysteresis ==
    [][(op' = "update" /\ ~MachineFault(state') /\ state'.print_state = "printing"
        /\ (state'.bed_target # 0 \/ state'.extruder_target # 0)
        /\ C7_InBand(state') /\ current_event \in {PRINTING, HEATING}) =>
        C7_NoTransition]_vars

C7_Witness ==
    /\ op = "update"
    /\ ret = NoChange
    /\ current_event = PRINTING
    /\ state.print_state = "printing"
    /\ state.bed_target = 60 /\ state.bed_temp = 50
    /\ state.extruder_target = 200 /\ state.extruder_temp = 190

\* the invocations a transition to event e owes the n registered listeners
C8_AllCalls(n, e) == [i \in 1..n |-> <<i, e>>]

\* C8: on a transition every registered callback is invoked with the new
\* event, in registration order, also after a callback that raised; no
\* exception leaves the call, and the events and timers are those of the
\* transition.
C8_ListenerIsolation ==
    [][LET t == now'
           d == _detect_event(state', t, current_event, idle_start, bored_start)
           e == IF op' = "update" THEN d.event ELSE current_event'
           b == IF op' = "update" THEN d.bored_start ELSE bored_start
           tm == TransitionTimers(e, t, idle_start, b)
       IN  (op' = "force_event" \/ (op' = "update" /\ d.event # current_event)) =>
              /\ notified' = C8_AllCalls(Len(listeners), e)
              /\ ret' # Raised
              /\ current_event' = e
              /\ previous_event' = current_event
              /\ idle_start' = tm.idle_start
              /\ bored_start' = tm.bored_start]_vars

C8_Witness ==
    /\ op = "update"
    /\ listeners = <<"raises", "ok">>
    /\ notified = <<<<1, ERROR>>, <<2, ERROR>>>>
    /\ ret = ERROR
    /\ current_event = ERROR
    /\ idle_start = None

(***************************************************************************)
(* Properties of the pluggable detectors.                                  *)
(***************************************************************************)
\* C9: composed by its caller in ascending priority order, an inactive
\* printer that has been in bored for at least sleep_timeout seconds is
\* selected as sleep.
C9_EscalatesToSleep ==
    (/\ evaluated
     /\ TrulyIdle(status)
     /\ DOMAIN context # {}
     /\ context.last_state = "bored"
     /\ context.current_time - context.state_enter_time >= SleepTimeout)
    => last_state = "sleep"

\* the sub-key of a group of a raw status, or the default when it is absent
C10_SubKey(st, group, key, default) ==
    IF group \in DOMAIN st /\ key \in DOMAIN st[group] THEN st[group][key]
    ELSE default

\* a heater target is set, the print sub-state is printing or paused, or the
\* idle_timeout sub-state is error
C10_Blocked(st) ==
    \/ C10_SubKey(st, "extruder", "target", 0) > 0
    \/ C10_SubKey(st, "heater_bed", "target", 0) > 0
    \/ C10_SubKey(st, "print_stats", "state", "") \in {"printing", "paused"}
    \/ C10_SubKey(st, "idle_timeout", "state", "") = "error"

\* C10: for every raw status and timing context, last_state bored or sleep
\* included, both predicates return false when a heater target is set, the
\* print sub-state is printing or paused, or the idle_timeout sub-state is
\* error.
C10_SharedGuard ==
    (evaluated /\ C10_Blocked(status)) => (~bored_active /\ ~sleep_active)

C10_Witness ==
    /\ evaluated
    /\ DOMAIN context # {}
    /\ context.last_state = "bored"
    /\ context.current_time - context.state_enter_time >= SleepTimeout
    /\ C10_SubKey(status, "print_stats", "state", "") = "paused"
    /\ C10_SubKey(status, "extruder", "target", 0) = 0
    /\ C10_SubKey(status, "heater_bed", "target", 0) = 0
    /\ ~bored_active
    /\ ~sleep_active

\* the guard is satisfied (sub-state names compared whatever their case) and
\* a timing context is given
C11_GuardPassed ==
    /\ evaluated
    /\ DOMAIN context # {}
    /\ C10_SubKey(status, "extruder", "target", 0) <= 0
    /\ C10_SubKey(status, "heater_bed", "target", 0) <= 0
    /\ Lower(C10_SubKey(status, "print_stats", "state", "")) \notin {"printing", "paused"}
    /\ Lower(C10_SubKey(status, "idle_timeout", "state", "")) # "error"

\* a key of the timing context, or the default the detector reads instead
C11_Key(key, default) == IF key \in DOMAIN context THEN context[key] ELSE default

C11_Elapsed == C11_Key("current_time", 0) - C11_Key("state_enter_time", 0)

\* C11: past the guard, BoredDetector.detect is true for last_state bored,
\* for last_state idle exactly when current_time - state_enter_time >=
\* bored_timeout, and false for every other last_state.
C11_BoredPredicate ==
    C11_GuardPassed =>
        LET last == C11_Key("last_state", "")
        IN  /\ last = "bored" => bored_active
            /\ last = "idle" =>
                  (bored_active <=>
                      C11_Elapsed >= C11_Key("bored_timeout", DefaultBoredTimeout))
            /\ last \notin {"bored", "idle"} => ~bored_active

C11_Witness ==
    /\ C11_GuardPassed
    /\ context.last_state = "idle"
    /\ "bored_timeout" \in DOMAIN context
    /\ C11_Elapsed = context.bored_timeout
    /\ bored_active
    /\ ~sleep_active

\* C12: past the guard, SleepDetector.detect is true for last_state sleep,
\* for last_state bored exactly when current_time - state_enter_time >=
\* sleep_timeout, and false for every other last_state, idle included
\* however long it has lasted.
C12_SleepPredicate ==
    C11_GuardPassed =>
        LET last == C11_Key("last_state", "")
        IN  /\ last = "sleep" => sleep_active
            /\ last = "bored" =>
                  (sleep_active <=>
                      C11_Elapsed >= C11_Key("sleep_timeout", DefaultSleepTimeout))
            /\ last \notin {"sleep", "bored"} => ~sleep_active

C12_Witness ==
    /\ C11_GuardPassed
    /\ context.last_state = "idle"
    /\ "sleep_timeout" \in DOMAIN context
    /\ C11_Elapsed > context.sleep_timeout + context.bored_timeout
    /\ ~sleep_active
    /\ bored_active

\* the last update_from_status call and its delta
C13_Called == Len(history) > 0
C13_Delta == history[Len(history)].status
C13_Raised == history[Len(history)].raised

\* the delta of a call carries the field: its group is there as a mapping
\* with the sub-key; a position carries x, y and z when it is a list of
\* three entries or more
C13_Carries(st, f) ==
    LET has(g, key) ==
            /\ g \in DOMAIN st
            /\ st[g].kind = "dict"
            /\ key \in DOMAIN st[g].items
    IN  CASE f = "klipper_state" -> has("webhooks", "state")
          [] f = "print_state" -> has("print_stats", "state")
          [] f = "filename" -> has("print_stats", "filename")
          [] f = "progress" -> has("display_status", "progress")
          [] f = "bed_temp" -> has("heater_bed", "temperature")
          [] f = "bed_target" -> has("heater_bed", "target")
          [] f = "extruder_temp" -> has("extruder", "temperature")
          [] f = "extruder_target" -> has("extruder", "target")
          [] f \in {"position_x", "position_y", "position_z"} ->
                /\ has("toolhead", "position")
                /\ st["toolhead"].items["position"].kind = "list"
                /\ Len(st["toolhead"].items["position"].entries) >= 3
          [] f = "idle_state" -> has("idle_timeout", "state")

\* the value the delta carries for the field
C13_Value(st, f) ==
    CASE f = "klipper_state" -> st["webhooks"].items["state"]
      [] f = "print_state" -> st["print_stats"].items["state"]
      [] f = "filename" -> st["print_stats"].items["filename"]
      [] f = "progress" -> st["display_status"].items["progress"]
      [] f = "bed_temp" -> st["heater_bed"].items["temperature"]
      [] f = "bed_target" -> st["heater_bed"].items["target"]
      [] f = "extruder_temp" -> st["extruder"].items["temperature"]
      [] f = "extruder_target" -> st["extruder"].items["target"]
      [] f = "position_x" -> st["toolhead"].items["position"].entries[1]
      [] f = "position_y" -> st["toolhead"].items["position"].entries[2]
      [] f = "position_z" -> st["toolhead"].items["position"].entries[3]
      [] f = "idle_state" -> st["idle_timeout"].items["state"]

C13_Numeric ==
    {"progress", "bed_temp", "bed_target", "extruder_temp", "extruder_target",
     "position_x", "position_y", "position_z"}

\* a null number is stored as 0.0
C13_Stored(st, f) ==
    IF f \in C13_Numeric /\ C13_Value(st, f) = None THEN 0 ELSE C13_Value(st, f)

\* the value of the last of the first n deltas that carried the field, as
\* the delta has it (raw) or as it is stored; the default when none did
RECURSIVE C13_Last(_, _, _)
C13_Last(f, n, raw) ==
    IF n = 0 THEN PrinterStateDefaults[f]
    ELSE IF C13_Carries(history[n].status, f)
    THEN IF raw THEN C13_Value(history[n].status, f)
         ELSE C13_Stored(history[n].status, f)
    ELSE C13_Last(f, n - 1, raw)

\* every call so far returned normally
C13_NoError == \A n \in 1..Len(history) : ~history[n].raised

C14_Malformed(g) ==
    /\ C13_Called
    /\ g \in DOMAIN C13_Delta
    /\ \/ C13_Delta[g].kind # "dict"
       \/ /\ g = "toolhead"
          /\ "position" \in DOMAIN C13_Delta[g].items
          /\ \/ C13_Delta[g].items["position"].kind = "None"
             \/ Len(C13_Delta[g].items["position"].entries) < 3

\* the fields the block of a group assigns
C14_FieldsOf(g) ==
    CASE g = "webhooks" -> {"klipper_state"}
      [] g = "print_stats" -> {"print_state", "filename"}
      [] g = "display_status" -> {"progress"}
      [] g = "heater_bed" -> {"bed_temp", "bed_target"}
      [] g = "extruder" -> {"extruder_temp", "extruder_target"}
      [] g = "toolhead" -> {"position_x", "position_y", "position_z"}
      [] g = "idle_timeout" -> {"idle_state"}

C14_Groups == {GroupOrder[i] : i \in 1..Len(GroupOrder)}

\* C14: update_from_status never fails.  No call raises an error, and a
\* malformed recognized group of the delta is ignored: its fields keep
\* their prior values.
C14_NeverFails ==
    C13_Called =>
        /\ ~C13_Raised
        /\ \A g \in C14_Groups :
              C14_Malformed(g) =>
                  \A f \in C14_FieldsOf(g) : printer_state[f] = prior_state[f]

\* the lenient part of the policy, which the code does keep: unknown groups,
\* groups that are lists and short positions are ignored without error
C14_Lenient ==
    (/\ C13_Called
     /\ \A g \in DOMAIN C13_Delta :
           /\ C13_Delta[g].kind # "None"
           /\ (g = "toolhead" /\ "position" \in DOMAIN C13_Delta[g].items)
                 => C13_Delta[g].items["position"].kind # "None")
        => ~C13_Raised

\* the last call was effect_fill, with these arguments and this buffer
C15_Filled == effect_op = "effect_fill"
C15_Count == effect_args.led_count
C15_LitCount ==
    FMul(Max(0, Min(Unit, effect_args.fill_percent)), FromInt(effect_args.led_count))
C15_Buffer == effect_ret.colors

\* the gradient colour of the LED at 1-indexed position p
C15_Gradient(p) ==
    _lerp_color(effect_state.start_color, effect_state.end_color,
                Pow(IF C15_Count <= 1 THEN Unit
                    ELSE FDiv(FromInt(p - 1), FromInt(C15_Count - 1)),
                    effect_state.gradient_curve))

\* length, and fully lit / partially lit / unlit by position
C15_Shape ==
    (C15_Filled /\ effect_state.direction = "standard") =>
        /\ Len(C15_Buffer) = C15_Count
        /\ \A p \in 1..C15_Count :
              /\ FromInt(p) <= C15_LitCount => C15_Buffer[p] = C15_Gradient(p)
              /\ (FromInt(p - 1) < C15_LitCount /\ C15_LitCount < FromInt(p)) =>
                    LET partial == FSub(C15_LitCount, FromInt(p - 1))
                        color == C15_Gradient(p)
                    IN  C15_Buffer[p] = <<FMul(color[1], partial),
                                          FMul(color[2], partial),
                                          FMul(color[3], partial)>>
              /\ C15_LitCount <= FromInt(p - 1) => C15_Buffer[p] = Unlit
        /\ \A p, r \in 1..C15_Count :
              (p < r /\ C15_Buffer[r] # Unlit) => FromInt(p) <= C15_LitCount

\* the two ends of the fill range
C15_Ends ==
    (C15_Filled /\ effect_state.direction = "standard") =>
        /\ effect_args.fill_percent = 0 =>
              \A p \in 1..C15_Count : C15_Buffer[p] = Unlit
        /\ effect_args.fill_percent = Unit =>
              \A p \in 1..C15_Count : C15_Buffer[p] # Unlit

\* with fill_percent = 1 the last LED's colour is end_color
C15_LastIsEndColor ==
    (/\ C15_Filled
     /\ effect_state.direction = "standard"
     /\ effect_args.fill_percent = Unit
     /\ C15_Count >= 1)
        => C15_Buffer[C15_Count] = effect_state.end_color

\* C15: effect_fill in the standard direction returns led_count elements;
\* LED p is fully lit iff p <= lit_count, partially lit iff
\* p-1 < lit_count < p, unlit otherwise; fill_percent 0 lights nothing and
\* fill_percent 1 lights every LED, the last one in end_color.
C15_GradientFill == C15_Shape /\ C15_Ends /\ C15_LastIsEndColor

\* effect_fill on the arguments of the last call, in the given direction
C16_Fill(direction) ==
    effect_fill([effect_state EXCEPT !.direction = direction],
                effect_args.fill_percent, effect_args.led_count)

\* C16: for the same EffectState, fill_percent and led_count the buffer of
\* direction 'reverse' is the element-by-element reverse of the buffer of
\* direction 'standard', each LED keeping its colour, and reversing it again
\* gives the standard buffer back.
C16_ReverseOfStandard ==
    C15_Filled =>
        LET standard == C16_Fill("standard")
            reverse == C16_Fill("reverse")
            n == Len(standard)
            twice == [i \in 1..n |-> reverse[n + 1 - i]]
        IN  /\ effect_ret.colors = C16_Fill(effect_state.direction)
            /\ Len(reverse) = n
            /\ \A i \in 1..n : reverse[i] = standard[n + 1 - i]
            /\ twice = standard

C16_Witness ==
    /\ C15_Filled
    /\ effect_state.direction = "reverse"
    /\ C15_Count = 3
    /\ C15_Buffer[1] = Unlit
    /\ C15_Buffer[2] # Unlit
    /\ C15_Buffer[2] # C15_Gradient(2)
    /\ C15_Buffer[3] = effect_state.start_color
    /\ effect_state.start_color # effect_state.end_color

\* the last call was effect_thermal
C17_Called == effect_op = "effect_thermal"

\* every LED of the returned buffer in start_color
C17_Solid ==
    /\ Len(effect_ret.colors) = effect_args.led_count
    /\ \A p \in 1..effect_args.led_count :
          effect_ret.colors[p] = effect_state.start_color

\* C17: effect_thermal returns led_count copies of start_color when
\* target_temp <= 0 or target_temp <= temp_floor, whatever current_temp is;
\* otherwise effect_fill with fill_percent = (current_temp - temp_floor) /
\* (target_temp - temp_floor): fully lit for current_temp = target_temp and
\* temp_floor = 0, all unlit for current_temp <= temp_floor.
C17_Thermal ==
    C17_Called =>
        LET current_temp == effect_args.current_temp
            target_temp == effect_args.target_temp
            temp_floor == effect_args.temp_floor
            led_count == effect_args.led_count
        IN  IF target_temp <= 0 \/ target_temp <= temp_floor THEN C17_Solid
            ELSE /\ effect_ret.colors =
                       effect_fill(effect_state,
                                   FDiv(FSub(current_temp, temp_floor),
                                        FSub(target_temp, temp_floor)),
                                   led_count)
                 /\ (current_temp = target_temp /\ temp_floor = 0) =>
                       /\ effect_ret.colors = effect_fill(effect_state, Unit, led_count)
                       /\ \A p \in 1..led_count : effect_ret.colors[p] # Unlit
                 /\ current_temp <= temp_floor =>
                       \A p \in 1..led_count : effect_ret.colors[p] = Unlit

C17_Witness ==
    /\ C17_Called
    /\ effect_args.temp_floor = FromInt(20)
    /\ effect_args.current_temp = FromInt(40)
    /\ effect_args.target_temp = FromInt(60)
    /\ effect_args.led_count = 3
    /\ effect_state.direction = "standard"
    /\ effect_ret.colors[1] = effect_state.start_color
    /\ effect_ret.colors[2] # Unlit
    /\ effect_ret.colors[3] = Unlit

\* the last call was effect_disco
C18_Called == effect_op = "effect_disco"

\* the lit (non-None) positions of the returned buffer
C18_Lit == {p \in 1..Len(effect_ret.colors) : effect_ret.colors[p] # Unlit}

\* C18: effect_disco returns ([], false) if and only if now - last_update <
\* 1/speed; otherwise (buffer, true) with led_count elements of which between
\* min(min_sparkle, led_count) and min(max_sparkle, led_count) are lit.
C18_DiscoGate ==
    C18_Called =>
        LET held == FSub(effect_args.now, effect_state.last_update)
                        < FDiv(Unit, effect_state.speed)
        IN  /\ (effect_ret = [colors |-> <<>>, updated |-> FALSE]) <=> held
            /\ ~held =>
                  /\ effect_ret.updated
                  /\ Len(effect_ret.colors) = effect_args.led_count
                  /\ Cardinality(C18_Lit) >=
                        Min(effect_state.min_sparkle, effect_args.led_count)
                  /\ Cardinality(C18_Lit) <=
                        Min(effect_state.max_sparkle, effect_args.led_count)

C18_Witness ==
    /\ C18_Called
    /\ effect_ret.updated
    /\ FSub(effect_args.now, effect_state.last_update) = FDiv(Unit, effect_state.speed)
    /\ effect_args.led_count = 3
    /\ effect_state.max_sparkle = 2
    /\ Cardinality(C18_Lit) = 2

\* C19: a firing effect_disco call at time now sets the EffectState's
\* last_update to now; a call that does not fire leaves last_update as it
\* was; start_time is never modified.
C19_GateState ==
    [][effect_op' = "effect_disco" =>
          /\ effect_ret'.updated => effect_state'.last_update = effect_args'.now
          /\ ~effect_ret'.updated =>
                effect_state'.last_update = effect_state.last_update
          /\ effect_state'.start_time = effect_state.start_time]_vars

\* what effect_disco does keep: a call that does not fire leaves last_update
\* alone, and no call touches start_time
C19_Untouched ==
    [][effect_op' = "effect_disco" =>
          /\ ~effect_ret'.updated =>
                effect_state'.last_update = effect_state.last_update
          /\ effect_state'.start_time = effect_state.start_time]_vars

\* the last call was effect_heartbeat on a white base colour, which makes
\* every channel of the result the brightness
C20_Called ==
    /\ effect_op = "effect_heartbeat"
    /\ effect_state.base_color = White
    /\ effect_state.min_brightness <= effect_state.max_brightness

C20_Brightness == effect_ret.color[1]

\* phase = ((now - start_time) mod 1/speed) * speed
C20_Phase ==
    FMul(FMod(FSub(effect_args.now, effect_state.start_time),
              FDiv(Unit, effect_state.speed)),
         effect_state.speed)

\* the phases at which the dip ends, the second rise ends, the fade ends
C20_DipEnd == FAdd(HEARTBEAT_FIRST_PULSE_DURATION, HEARTBEAT_DIP_DURATION)
C20_RiseEnd == FAdd(C20_DipEnd, HEARTBEAT_SECOND_PULSE_DURATION)
C20_FadeEnd == FAdd(C20_RiseEnd, HEARTBEAT_FADE_DURATION)

\* brightness at the phase boundaries, and its range
C20_Boundaries ==
    LET lo == effect_state.min_brightness
        hi == effect_state.max_brightness
    IN  /\ C20_Phase = 0 => C20_Brightness = lo
        /\ C20_Phase = HEARTBEAT_FIRST_PULSE_DURATION => C20_Brightness = hi
        /\ C20_Phase = C20_DipEnd =>
              C20_Brightness =
                  FSub(hi, FMul(FSub(hi, lo), HEARTBEAT_SECOND_PULSE_INTENSITY))
        /\ C20_Phase = C20_RiseEnd => C20_Brightness = hi
        /\ C20_Phase >= C20_FadeEnd => C20_Brightness = lo
        /\ lo <= C20_Brightness
        /\ C20_Brightness <= hi

\* C20: heartbeat brightness is min_brightness at phase 0, max_brightness at
\* phase 0.15, max - 50%*(max - min) at phase 0.20, max_brightness again at
\* phase 0.25, min_brightness from phase 0.35 on, and for min_brightness <=
\* max_brightness always within [min_brightness, max_brightness].
C20_PhaseBrightness == C20_Called => C20_Boundaries

\* the same outside the second rise, which is where the code keeps to it
C20_OutsideSecondRise ==
    (C20_Called /\ ~(C20_Phase >= C20_DipEnd /\ C20_Phase < C20_RiseEnd))
        => C20_Boundaries

\* the snapshot of the last update has a heater target set / a heater
\* hotter than 40 degrees
C21_TargetSet == state.bed_target > 0 \/ state.extruder_target > 0
C21_Hot == state.bed_temp > 40 \/ state.extruder_temp > 40

\* C21: after an update whose snapshot is neither shutdown/error nor
\* printing the event is heating if any heater target is > 0, whatever the
\* temperatures and timers, and otherwise cooldown if any temperature is
\* > 40; idle, bored and sleep are detected only with no target set and no
\* temperature above 40.
C21_HeatingThenCooldown ==
    op = "update" =>
        /\ (~MachineFault(state) /\ state.print_state # "printing") =>
              /\ C21_TargetSet => current_event = HEATING
              /\ (~C21_TargetSet /\ C21_Hot) => current_event = COOLDOWN
        /\ current_event \in {IDLE, BORED, SLEEP} => (~C21_TargetSet /\ ~C21_Hot)

C21_Witness ==
    /\ op = "update"
    /\ ~MachineFault(state)
    /\ state.print_state # "printing"
    /\ state.bed_target > 0
    /\ state.extruder_target = 0
    /\ state.extruder_temp > 40
    /\ previous_event = BORED
    /\ current_event = HEATING
    /\ ret = HEATING

\* the events of an active printer
C22_Active == {HEATING, PRINTING, COOLDOWN, ERROR}

\* C22: whenever the current event is heating, printing, cooldown or error,
\* after any sequence of update and force_event calls, neither the
\* idle-timer nor the bored-timer is running; an update that leaves the
\* event in one of these four starts neither.
C22_NoTimersWhileActive ==
    current_event \in C22_Active => (idle_start = None /\ bored_start = None)

C22_Witness ==
    /\ op = "update"
    /\ ret = NoChange
    /\ current_event = COOLDOWN
    /\ previous_event = SLEEP
    /\ idle_start = None
    /\ bored_start = None
    /\ now = MaxTime

\* C23: an update that takes the detector into idle at time T sets the
\* idle-timer to T and clears the bored-timer; the timer keeps T while idle
\* stays current, and with inactive telemetry update reports bored exactly on
\* the first call at or after T + bored_timeout, however long the detector
\* has existed or was idle before.
C23_IdleReentry ==
    [][op' = "update" =>
        /\ ret' = IDLE =>
              /\ current_event \in C22_Active
              /\ idle_start' = now'
              /\ bored_start' = None
        /\ (current_event = IDLE /\ current_event' = IDLE) =>
              /\ idle_start' = idle_start
              /\ bored_start' = None
        /\ (current_event = IDLE /\ Inactive(state')) =>
              /\ ret' \in {NoChange, BORED}
              /\ ret' = BORED <=> now' >= idle_start + BoredTimeout]_vars

C23_Witness ==
    /\ op = "update"
    /\ ret = BORED
    /\ previous_event = IDLE
    /\ ~quiet
    /\ idle_start > StartTime + BoredTimeout
    /\ now = idle_start + BoredTimeout
    /\ bored_start = now

\* C24: entering bored, by update or by force_event, leaves a bored-timer
\* that is already running at its start instant, so the instant at which
\* sleep is due (bored start + sleep_timeout) is never moved later.
C24_BoredStartKept ==
    [][(/\ op' \in {"update", "force_event"}
        /\ current_event' = BORED
        /\ (op' = "force_event" \/ ret' = BORED)
        /\ bored_start # None)
          => bored_start' = bored_start]_vars

\* the same for update alone when the detector has never been forced: there
\* bored is entered from idle only, with the bored-timer not running
C24_UpdateEntersFromIdle ==
    [][(op' = "update" /\ ret' = BORED)
          => (current_event = IDLE /\ bored_start = None /\ bored_start' = now')]_vars

\* C25: under update alone, at non-decreasing times, with inactive telemetry
\* the event only moves forward along idle -> bored -> sleep: idle stays or
\* becomes bored, bored stays or becomes sleep, and sleep stays, update
\* returning no-change, until telemetry makes the printer active.
C25_OnlyEscalates ==
    [][(op' = "update" /\ Inactive(state')) =>
        /\ now' >= now
        /\ current_event = IDLE => current_event' \in {IDLE, BORED}
        /\ current_event = BORED => current_event' \in {BORED, SLEEP}
        /\ current_event = SLEEP => (current_event' = SLEEP /\ ret' = NoChange)]_vars

C25_Witness ==
    /\ op = "update"
    /\ Inactive(state)
    /\ ret = NoChange
    /\ current_event = SLEEP
    /\ previous_event = BORED
    /\ bored_start # None
    /\ now > bored_start + SleepTimeout
    /\ ~quiet

\* what C26 says of one call that was made with event `before` current
C26_OnChangeOnly(before, idle, bored) ==
    /\ \A i \in 1..Len(notified') : notified'[i][2] # before
    /\ (previous_event' # previous_event \/ current_event' # current_event)
          => previous_event' # current_event'
    /\ current_event' = before =>
          /\ notified' = <<>>
          /\ idle_start' = idle
          /\ bored_start' = bored

\* C26: in any sequence of update and force_event calls every listener
\* invocation carries an event different from the one current just before
\* it, previous_event differs from current_event once a transition has
\* occurred, and no listener is notified and no timer reset for an event
\* that was already current.
C26_NotifyOnChange ==
    [][op' \in {"update", "force_event"} =>
          C26_OnChangeOnly(current_event, idle_start, bored_start)]_vars

\* the same for the update calls of such a sequence, which do keep to it
C26_UpdateNotifiesOnChange ==
    [][op' = "update" =>
          C26_OnChangeOnly(current_event, idle_start, bored_start)]_vars

====
